---- MODULE Spec2Model ----
(***************************************************************************)
(* A model of the gaia_dashboard backend: the PostgreSQL store (nodes,     *)
(* individuals, edges, geo_arg, flux) and the three query handlers of      *)
(* src/backend/src/main.rs that read it: get_individual_origin_paths,      *)
(* get_origin_paths and get_average_flux.  Every store access of a handler *)
(* ends in .unwrap_or_default(), so each access either answers or fails    *)
(* and is replaced by the empty vector.                                    *)
(***************************************************************************)
EXTENDS Integers, Sequences, FiniteSets, TLC

\* ---------------------------------------------------------------- bounds
MaxNode == 3
MaxEdge == 2
MaxState == 2
MaxTime == 1
MaxRows == 3
MaxLen == 3
MaxInd == 2
MaxSteps == 3
MaxSuspended == 1
MaxTick == 2
MaxRuns == 2

\* LIMIT 1000 of relevant_transitions (main.rs:222), scaled down to the
\* size of the modelled tables so that the limit is reached.
RowLimit == 1

\* float_eq's tolerance 1e-10 (migrate_data.rs:61), with the times of
\* georef entries counted in units of half of it (5e-11).
Tolerance == 2

\* georef_data.chunks(100) (migrate_data.rs:270), scaled down to the size
\* of the modelled files.
ChunkSize == 2

\* The batch sizes of migrate_data_local (100, 1000, 5000, 10;
\* migrate_data_local.rs:517-527), scaled down to one size that splits the
\* modelled files into several chunks.
BatchSize == 2

NodeIds == 1..MaxNode
EdgeIds == 1..MaxEdge
StateIds == 1..MaxState
Times == 0..MaxTime
IndIds == 1..MaxInd

\* struct GeoArg { edge_id, state_id, time }
GeoArg == [edge_id : EdgeIds, state_id : StateIds, time : Times]

VARIABLES
    nodes,        \* table nodes: the ids stored
    individuals,  \* table individuals: id -> its nodes array (as a set)
    edges,        \* table edges: rows [id, parent, child], id the key
    geo_arg,      \* table geo_arg: rows, unique on (edge_id, state_id, time)
    flux,         \* table flux: rows [id, source, target, time, rate]
    pc,           \* where the handler serving the current request stands
    handler,      \* which handler serves it
    arg,          \* its path parameter (individual_id or state_id)
    node_tree,    \* the CTE node_tree: node id -> number of its rows
    working,      \* the working table of the recursive evaluation
    iters,        \* recursive-term evaluations of this request
    edge_ids,     \* edge_ids (individual) / relevant_transitions (origin)
    paths,        \* the attachment rows fetched, in the order returned
    response,     \* what the caller receives
    calls,        \* store calls issued for this request, in order
    failed,       \* the store calls of this request that returned Err
    populations,  \* table populations: the ids stored
    hexagons,     \* table hexagons: the state ids stored
    georef_entries, \* table georef_entries of migrate_data, unique on (edge_id, state_id, time)
    reqs,         \* the locals of the requests suspended at an await
    migration     \* the locals of the migration binary that runs, if any

vars == <<nodes, individuals, edges, geo_arg, flux, pc, handler, arg,
          node_tree, working, iters, edge_ids, paths, response, calls, failed,
          populations, hexagons, georef_entries, reqs, migration>>

store == <<nodes, individuals, edges, geo_arg, flux, populations, hexagons,
           georef_entries>>

\* The locals of the running handler.
locals == <<pc, handler, arg, node_tree, working, iters, edge_ids, paths,
            response, calls, failed>>

\* What no step of the running handler touches: the suspended requests
\* and the migration binaries.
others == <<reqs, migration>>

\* ------------------------------------------------------------- helpers
Min(a, b) == IF a <= b THEN a ELSE b

RECURSIVE SumOver(_, _)
SumOver(S, f) ==
    IF S = {} THEN 0
    ELSE LET x == CHOOSE y \in S : TRUE IN f[x] + SumOver(S \ {x}, f)

EmptyBag == [n \in NodeIds |-> 0]

BagOf(S) == [n \in NodeIds |-> IF n \in S THEN 1 ELSE 0]

BagSet(b) == {n \in NodeIds : b[n] > 0}

BagAdd(a, b) == [n \in NodeIds |-> a[n] + b[n]]

\* Every handler returns Json<Vec<..>>: the one shape a caller can receive.
NoResponse == [kind |-> "none", body |-> <<>>]

Json(v) == [kind |-> "Json", body |-> v]

\* Option<i32>: None is <<>>, Some(x) is <<x>>.
None == <<>>

Some(x) == <<x>>

\* ------------------------------------------- SQL of the individual query
\* Base case of node_tree: the rows of nodes whose id is in the nodes array
\* of the individual with id = $1 (no such individual: no row).
BaseRows(individual_id) ==
    {n \in nodes : \E i \in DOMAIN individuals :
                      i = individual_id /\ n \in individuals[i]}

\* Recursive case: SELECT e.parent FROM edges e INNER JOIN node_tree nt
\* ON e.child = nt.node_id, nt being the working table: one row per
\* (edge, working row) pair that joins.
RecursiveRows(work) ==
    [p \in NodeIds |->
        SumOver({e \in edges : e.parent = p},
                [e \in edges |-> work[e.child]])]

\* UNION ALL: the derived rows are kept as they come.
UnionAllRows(result, derived) == derived

\* UNION: duplicate rows, and rows that duplicate a row of the result so
\* far, are discarded; what is left is the next working table.
UnionRows(result, derived) ==
    [n \in NodeIds |-> IF derived[n] > 0 /\ result[n] = 0 THEN 1 ELSE 0]

\* The final SELECT with only its child-side disjunct.
SelectChildSideOnly(tree) ==
    {e.id : e \in {x \in edges : x.child \in BagSet(tree)}}

\* SELECT DISTINCT e.id FROM edges e WHERE e.child IN node_tree
\*                                      OR e.parent IN node_tree
SelectEdgeIds(tree) ==
    {e.id : e \in {x \in edges : x.child \in BagSet(tree)
                                  \/ x.parent \in BagSet(tree)}}

\* ------------------------------------------------ ORDER BY edge_id, time
\* ORDER BY edge_id alone.
KeyLeqEdgeOnly(a, b) == a.edge_id <= b.edge_id

\* ORDER BY time, edge_id.
KeyLeqTimeFirst(a, b) ==
    \/ a.time < b.time
    \/ a.time = b.time /\ a.edge_id <= b.edge_id

\* ORDER BY edge_id, time DESC.
KeyLeqTimeDescending(a, b) ==
    \/ a.edge_id < b.edge_id
    \/ a.edge_id = b.edge_id /\ a.time >= b.time

KeyLeq(a, b) ==
    \/ a.edge_id < b.edge_id
    \/ a.edge_id = b.edge_id /\ a.time <= b.time

\* Every order the store may return the rows S in: rows with equal
\* (edge_id, time) come in any order.
RECURSIVE OrderedRows(_)
OrderedRows(S) ==
    IF S = {} THEN {<<>>}
    ELSE UNION { {<<r>> \o t : t \in OrderedRows(S \ {r})} :
                 r \in {x \in S : \A y \in S : KeyLeq(x, y)} }

\* SELECT .. FROM geo_arg WHERE edge_id = ANY($1)
RowsOfEdges(ids) == {g \in geo_arg : g.edge_id \in ids}

\* ------------------------------------------------ SQL of the origin query
\* The edges whose minimum-time row is at state_id.
EarliestAtState(state_id) ==
    {g.edge_id : g \in {x \in geo_arg :
        /\ x.state_id = state_id
        /\ \A y \in geo_arg : y.edge_id = x.edge_id => x.time <= y.time}}

\* SELECT DISTINCT edge_id FROM geo_arg WHERE state_id = $1
EdgesAtState(state_id) ==
    {g.edge_id : g \in {x \in geo_arg : x.state_id = state_id}}

\* The edge selection without its LIMIT.
RelevantTransitionsNoLimit(state_id) == {EdgesAtState(state_id)}

\* .. LIMIT 1000, with no ORDER BY: any RowLimit of them, all when fewer.
RelevantTransitions(state_id) ==
    {S \in SUBSET EdgesAtState(state_id) :
        Cardinality(S) = Min(RowLimit, Cardinality(EdgesAtState(state_id)))}

\* ------------------------------------------------------- the grouping pass
\* grouped_paths, current_edge_id and current_entries before the loop.
GroupStart == [grouped |-> <<>>, current_edge_id |-> None, current_entries |-> <<>>]

GeoArgPath(edge_id, entries) == [edge_id |-> edge_id, entries |-> entries]

\* The loop body with current_entries pushed without being taken.
GroupStepNoTake(acc, entry) ==
    IF acc.current_edge_id # None /\ acc.current_edge_id # Some(entry.edge_id)
    THEN [grouped |-> Append(acc.grouped,
                        GeoArgPath(acc.current_edge_id[1], acc.current_entries)),
          current_edge_id |-> Some(entry.edge_id),
          current_entries |-> Append(acc.current_entries, entry)]
    ELSE [grouped |-> acc.grouped,
          current_edge_id |-> Some(entry.edge_id),
          current_entries |-> Append(acc.current_entries, entry)]

\* The loop body that pushes a finished group and keeps the old
\* current_edge_id.
GroupStepNoSwitch(acc, entry) ==
    IF acc.current_edge_id # None
    THEN IF acc.current_edge_id[1] # entry.edge_id
         THEN [grouped |-> Append(acc.grouped,
                             GeoArgPath(acc.current_edge_id[1], acc.current_entries)),
               current_edge_id |-> acc.current_edge_id,
               current_entries |-> <<entry>>]
         ELSE [acc EXCEPT !.current_entries = Append(@, entry)]
    ELSE [acc EXCEPT !.current_edge_id = Some(entry.edge_id),
                     !.current_entries = Append(@, entry)]

\* One iteration of `for entry in paths`.
GroupStep(acc, entry) ==
    IF acc.current_edge_id # None
    THEN IF acc.current_edge_id[1] # entry.edge_id
         THEN [grouped |-> Append(acc.grouped,
                             GeoArgPath(acc.current_edge_id[1], acc.current_entries)),
               current_edge_id |-> Some(entry.edge_id),
               current_entries |-> <<entry>>]
         ELSE [acc EXCEPT !.current_entries = Append(@, entry)]
    ELSE [acc EXCEPT !.current_edge_id = Some(entry.edge_id),
                     !.current_entries = Append(@, entry)]

\* The pass without its last push.
GroupFinishNoFlush(acc) == acc.grouped

\* `if let Some(edge_id) = current_edge_id { grouped_paths.push(..) }`
GroupFinish(acc) ==
    IF acc.current_edge_id # None
    THEN Append(acc.grouped,
                GeoArgPath(acc.current_edge_id[1], acc.current_entries))
    ELSE acc.grouped

RECURSIVE GroupLoop(_, _, _)
GroupLoop(rows, i, acc) ==
    IF i > Len(rows) THEN acc
    ELSE GroupLoop(rows, i + 1, GroupStep(acc, rows[i]))

GroupPaths(rows) == GroupFinish(GroupLoop(rows, 1, GroupStart))

\* ------------------------------------------------ SQL of get_average_flux
RECURSIVE Gcd(_, _)
Gcd(a, b) == IF b = 0 THEN a ELSE Gcd(b, a % b)

Abs(x) == IF x < 0 THEN 0 - x ELSE x

\* The value num/den (den > 0) in lowest terms.
Ratio(num, den) ==
    LET g == Gcd(Abs(num), den) IN [num |-> num \div g, den |-> den \div g]

FluxOfPair(p) == {r \in flux : r.source_state_id = p[1] /\ r.target_state_id = p[2]}

\* AVG taken over the time steps of the table instead of the rows of the
\* group.
AvgRateOverAllSteps(p) ==
    Ratio(SumOver(FluxOfPair(p), [r \in flux |-> r.migration_rate]),
          Cardinality({r.time : r \in flux}))

\* AVG(migration_rate) of one group
AvgRate(p) ==
    Ratio(SumOver(FluxOfPair(p), [r \in flux |-> r.migration_rate]),
          Cardinality(FluxOfPair(p)))

\* HAVING AVG(migration_rate) >= 0
FluxGroupsNonNegative ==
    {p \in {<<r.source_state_id, r.target_state_id>> : r \in flux} :
        AvgRate(p).num >= 0}

\* GROUP BY source_state_id, target_state_id HAVING AVG(migration_rate) > 0
FluxGroups ==
    {p \in {<<r.source_state_id, r.target_state_id>> : r \in flux} :
        AvgRate(p).num > 0}

PairLeq(p, q) == p[1] < q[1] \/ (p[1] = q[1] /\ p[2] <= q[2])

\* ORDER BY source_state_id, target_state_id
RECURSIVE OrderedPairs(_)
OrderedPairs(S) ==
    IF S = {} THEN <<>>
    ELSE LET p == CHOOSE x \in S : \A y \in S : PairLeq(x, y)
         IN <<p>> \o OrderedPairs(S \ {p})

AverageFluxRows ==
    LET ps == OrderedPairs(FluxGroups)
    IN [k \in 1..Len(ps) |->
           [source_state_id |-> ps[k][1], target_state_id |-> ps[k][2],
            average_migration_rate |-> AvgRate(ps[k])]]

\* ------------------------------------------------------------ the store
\* Edge rows over the stored nodes (edges reference nodes), one per id.
EdgeTables(ns) ==
    {{[id |-> i, parent |-> f[i][1], child |-> f[i][2]] :
          i \in {j \in EdgeIds : f[j] # <<0, 0>>}} :
       f \in [EdgeIds -> {<<0, 0>>} \cup (ns \X ns)]}

RECURSIVE SubsetsUpTo(_, _)
SubsetsUpTo(S, k) ==
    IF k = 0 THEN {{}}
    ELSE LET T == SubsetsUpTo(S, k - 1)
         IN T \cup {t \cup {x} : t \in T, x \in S}

RECURSIVE SeqsUpTo(_, _)
SeqsUpTo(S, k) ==
    IF k = 0 THEN {<<>>}
    ELSE LET T == SeqsUpTo(S, k - 1)
         IN T \cup {Append(t, x) : t \in T, x \in S}

\* Every edge of es attached at cell 1 at time 0 and at the last cell at
\* the last time.
WalkRows(es) ==
    {g \in GeoArg :
        /\ g.edge_id \in {e.id : e \in es}
        /\ \/ g.state_id = 1 /\ g.time = 0
           \/ g.state_id = MaxState /\ g.time = MaxTime}

\* The rows handed to the grouping pass: every edge at every time, and at
\* time 0 in every cell.
GroupRows == {g \in GeoArg : g.state_id = 1 \/ g.time = 0}

\* A flux table: pair (1, 2) at rates 2 and 4, pair (2, 1) at rate 0.
FluxRows ==
    {[id |-> 1, source_state_id |-> 1, target_state_id |-> 2, time |-> 0, migration_rate |-> 2],
     [id |-> 2, source_state_id |-> 1, target_state_id |-> 2, time |-> 1, migration_rate |-> 4],
     [id |-> 3, source_state_id |-> 2, target_state_id |-> 1, time |-> 0, migration_rate |-> 0]}

\* The pedigree 1 -> 2 -> 3 -> ..: edge i has parent i and child i + 1.
ChainEdges ==
    {[id |-> i, parent |-> i, child |-> i + 1] :
        i \in {j \in EdgeIds : j + 1 \in NodeIds}}

\* No migration binary runs.
NotMigrating == [pc |-> "none"]

\* Only the running handler: no request is suspended, no migration runs,
\* and the tables that no modelled query reads are empty.
NoOtherProcess ==
    /\ populations = {}
    /\ hexagons = {}
    /\ georef_entries = {}
    /\ reqs = <<>>
    /\ migration = NotMigrating

NoRequest ==
    /\ pc = "idle"
    /\ handler = "none"
    /\ arg = 0
    /\ node_tree = EmptyBag
    /\ working = EmptyBag
    /\ iters = 0
    /\ edge_ids = {}
    /\ paths = <<>>
    /\ response = NoResponse
    /\ calls = <<>>
    /\ failed = {}

\* Any pedigree over the bounded ids, with fixed attachments and flux.
Init ==
    /\ nodes \in SUBSET NodeIds
    /\ individuals \in [{1} -> SUBSET NodeIds]
    /\ edges \in EdgeTables(nodes)
    /\ geo_arg = WalkRows(edges)
    /\ flux = FluxRows
    /\ NoRequest
    /\ NoOtherProcess

\* Any attachment table of at most MaxRows rows, over the chain pedigree.
InitRows ==
    /\ nodes = NodeIds
    /\ individuals \in [{1} -> {{1}, {MaxNode}}]
    /\ edges = ChainEdges
    /\ geo_arg \in SubsetsUpTo(GeoArg, MaxRows)
    /\ flux \in {{}, FluxRows}
    /\ NoRequest
    /\ NoOtherProcess

\* The pedigree of the end-to-end scenario, its nodes 5, 10, 11 written
\* 1, 2, 3: E1 = edge 1 (parent 5, child 10), E2 = edge 2 (parent 10,
\* child 11).
ScenarioEdges ==
    {[id |-> 1, parent |-> 1, child |-> 2], [id |-> 2, parent |-> 2, child |-> 3]}

\* The attachments of the scenario, its cells 3 and 4 written 1 and 2:
\* (E1, cell 3, t = 0) and (E1, cell 4, t = 1).
ScenarioRows ==
    {[edge_id |-> 1, state_id |-> 1, time |-> 0], [edge_id |-> 1, state_id |-> 2, time |-> 1]}

\* Individual 1 with nodes {10, 11} over the scenario's pedigree; E1 has
\* any attachments and E2 has none.
InitScenario ==
    /\ nodes = {1, 2, 3}
    /\ individuals = [i \in {1} |-> {2, 3}]
    /\ edges = ScenarioEdges
    /\ geo_arg \in SUBSET {g \in GeoArg : g.edge_id = 1}
    /\ flux = {}
    /\ NoRequest
    /\ NoOtherProcess

\* The (source, target) pairs and rates of the flux files.
FluxPairs == {<<1, 2>>, <<2, 1>>, <<2, 2>>}

FluxRates == {-2, 0, 2, 4, 6}

\* The entries of one time step of flux_data.time_series: none, or one
\* entry of any pair and rate.
FluxStepEntries ==
    {None} \cup {Some([source_id |-> p[1], target_id |-> p[2], value |-> v]) :
                    p \in FluxPairs, v \in FluxRates}

\* The flux table batch_insert_flux writes from a time series: one row per
\* entry, at time = its time step, ids in insertion order.
FluxTableOf(time_series) ==
    LET present == {t \in DOMAIN time_series : time_series[t] # None}
    IN {[id |-> Cardinality({u \in present : u <= t}),
         source_state_id |-> time_series[t][1].source_id,
         target_state_id |-> time_series[t][1].target_id,
         time |-> t - 1,
         migration_rate |-> time_series[t][1].value] : t \in present}

\* Any flux table migrated from a time series of MaxSteps time steps.
InitFlux ==
    /\ nodes = {}
    /\ individuals = [i \in {} |-> {}]
    /\ edges = {}
    /\ geo_arg = {}
    /\ flux \in {FluxTableOf(ts) : ts \in [1..MaxSteps -> FluxStepEntries]}
    /\ NoRequest
    /\ NoOtherProcess

\* What the future of the running handler holds across an await.
Locals ==
    [pc |-> pc, handler |-> handler, arg |-> arg, node_tree |-> node_tree,
     working |-> working, iters |-> iters, edge_ids |-> edge_ids,
     paths |-> paths, response |-> response, calls |-> calls, failed |-> failed]

\* The locals of a task that serves no request.
IdleLocals ==
    [pc |-> "idle", handler |-> "none", arg |-> 0, node_tree |-> EmptyBag,
     working |-> EmptyBag, iters |-> 0, edge_ids |-> {}, paths |-> <<>>,
     response |-> NoResponse, calls |-> <<>>, failed |-> {}]

\* The server with MaxSuspended + 1 tasks, over the chain pedigree and any
\* of its walk attachments.
InitConc ==
    /\ nodes = NodeIds
    /\ individuals = [i \in {1} |-> {MaxNode}]
    /\ edges = ChainEdges
    /\ geo_arg \in SUBSET WalkRows(ChainEdges)
    /\ flux = FluxRows
    /\ NoRequest
    /\ populations = {}
    /\ hexagons = {}
    /\ georef_entries = {}
    /\ reqs = [p \in 1..MaxSuspended |-> IdleLocals]
    /\ migration = NotMigrating

\* Any attachment sequence of at most MaxLen rows, handed to the grouping pass.
InitGroup ==
    /\ nodes = {}
    /\ individuals = [i \in {} |-> {}]
    /\ edges = {}
    /\ geo_arg = {}
    /\ flux = {}
    /\ pc = "group"
    /\ handler = "none"
    /\ arg = 0
    /\ node_tree = EmptyBag
    /\ working = EmptyBag
    /\ iters = 0
    /\ edge_ids = {}
    /\ paths \in SeqsUpTo(GroupRows, MaxLen)
    /\ response = NoResponse
    /\ calls = <<>>
    /\ failed = {}
    /\ NoOtherProcess

\* ------------------------------------------------------------- handlers
\* No handler is running: the server awaits a request.
Idle == pc = "idle"

\* The handler has returned: its locals are dropped and the response is sent.
Return ==
    /\ pc = "done"
    /\ handler # "none"
    /\ pc' = "idle"
    /\ handler' = "none"
    /\ arg' = 0
    /\ node_tree' = EmptyBag
    /\ working' = EmptyBag
    /\ iters' = 0
    /\ edge_ids' = {}
    /\ paths' = <<>>
    /\ response' = NoResponse
    /\ calls' = <<>>
    /\ failed' = {}
    /\ UNCHANGED <<store, others>>

\* get_individual_origin_paths is called and sends its first query.
IndividualStart(individual_id) ==
    /\ Idle
    /\ pc' = "edges_query"
    /\ handler' = "individual"
    /\ arg' = individual_id
    /\ node_tree' = EmptyBag
    /\ working' = EmptyBag
    /\ iters' = 0
    /\ edge_ids' = {}
    /\ paths' = <<>>
    /\ response' = NoResponse
    /\ calls' = <<"edges">>
    /\ failed' = {}
    /\ UNCHANGED <<store, others>>

\* The store evaluates the non-recursive term of node_tree.
NodeTreeBase ==
    /\ pc = "edges_query"
    /\ pc' = "node_tree"
    /\ node_tree' = BagOf(BaseRows(arg))
    /\ working' = BagOf(BaseRows(arg))
    /\ UNCHANGED <<store, others, handler, arg, iters, edge_ids, paths, response, calls, failed>>

\* The store evaluates the recursive term over the working table.
NodeTreeStep ==
    /\ pc = "node_tree"
    /\ BagSet(working) # {}
    /\ working' = UnionRows(node_tree, RecursiveRows(working))
    /\ node_tree' = BagAdd(node_tree, working')
    /\ iters' = iters + 1
    /\ UNCHANGED <<store, others, pc, handler, arg, edge_ids, paths, response, calls, failed>>

\* The handler without its early return: the attachment query is sent
\* whatever edge_ids holds.
EdgesQueryOkNoEarlyReturn ==
    /\ pc = "node_tree"
    /\ BagSet(working) = {}
    /\ edge_ids' = SelectEdgeIds(node_tree)
    /\ pc' = "paths_query"
    /\ response' = response
    /\ calls' = Append(calls, "paths")
    /\ UNCHANGED <<store, others, handler, arg, node_tree, working, iters, paths, failed>>

\* The working table is empty: the final SELECT answers; the handler
\* returns the empty vector when it holds no edge and else sends the
\* attachment query.
EdgesQueryOk ==
    /\ pc = "node_tree"
    /\ BagSet(working) = {}
    /\ edge_ids' = SelectEdgeIds(node_tree)
    /\ IF edge_ids' = {}
       THEN /\ pc' = "done"
            /\ response' = Json(<<>>)
            /\ calls' = calls
       ELSE /\ pc' = "paths_query"
            /\ response' = response
            /\ calls' = Append(calls, "paths")
    /\ UNCHANGED <<store, others, handler, arg, node_tree, working, iters, paths, failed>>

\* The first query fails: unwrap_or_default() gives no edge.
EdgesQueryErr ==
    /\ pc \in {"edges_query", "node_tree"}
    /\ failed' = failed \cup {"edges"}
    /\ edge_ids' = {}
    /\ pc' = "done"
    /\ response' = Json(<<>>)
    /\ UNCHANGED <<store, others, handler, arg, node_tree, working, iters, paths, calls>>

\* The attachment query answers; the rows are grouped and returned.
PathsQueryOk ==
    /\ pc = "paths_query"
    /\ \E rows \in OrderedRows(RowsOfEdges(edge_ids)) :
          /\ paths' = rows
          /\ response' = Json(GroupPaths(rows))
    /\ pc' = "done"
    /\ UNCHANGED <<store, others, handler, arg, node_tree, working, iters, edge_ids, calls, failed>>

\* The attachment query fails: unwrap_or_default() gives no row.
PathsQueryErr ==
    /\ pc = "paths_query"
    /\ failed' = failed \cup {"paths"}
    /\ paths' = <<>>
    /\ response' = Json(GroupPaths(<<>>))
    /\ pc' = "done"
    /\ UNCHANGED <<store, others, handler, arg, node_tree, working, iters, edge_ids, calls>>

\* get_origin_paths: its one query answers.
OriginPathsOk(state_id) ==
    /\ Idle
    /\ \E rt \in RelevantTransitions(state_id) :
          /\ edge_ids' = rt
          /\ \E rows \in OrderedRows(RowsOfEdges(rt)) :
                /\ paths' = rows
                /\ response' = Json(GroupPaths(rows))
    /\ pc' = "done"
    /\ handler' = "origin"
    /\ arg' = state_id
    /\ node_tree' = EmptyBag
    /\ working' = EmptyBag
    /\ iters' = 0
    /\ calls' = <<"origin">>
    /\ failed' = {}
    /\ UNCHANGED <<store, others>>

\* get_origin_paths: its one query fails.
OriginPathsErr(state_id) ==
    /\ Idle
    /\ edge_ids' = {}
    /\ paths' = <<>>
    /\ response' = Json(GroupPaths(<<>>))
    /\ pc' = "done"
    /\ handler' = "origin"
    /\ arg' = state_id
    /\ node_tree' = EmptyBag
    /\ working' = EmptyBag
    /\ iters' = 0
    /\ calls' = <<"origin">>
    /\ failed' = {"origin"}
    /\ UNCHANGED <<store, others>>

\* get_average_flux: its one query answers.
AverageFluxOk ==
    /\ Idle
    /\ response' = Json(AverageFluxRows)
    /\ pc' = "done"
    /\ handler' = "flux"
    /\ arg' = 0
    /\ node_tree' = EmptyBag
    /\ working' = EmptyBag
    /\ iters' = 0
    /\ edge_ids' = {}
    /\ paths' = <<>>
    /\ calls' = <<"flux">>
    /\ failed' = {}
    /\ UNCHANGED <<store, others>>

\* get_average_flux: its one query fails.
AverageFluxErr ==
    /\ Idle
    /\ response' = Json(<<>>)
    /\ pc' = "done"
    /\ handler' = "flux"
    /\ arg' = 0
    /\ node_tree' = EmptyBag
    /\ working' = EmptyBag
    /\ iters' = 0
    /\ edge_ids' = {}
    /\ paths' = <<>>
    /\ calls' = <<"flux">>
    /\ failed' = {"flux"}
    /\ UNCHANGED <<store, others>>

\* The grouping pass of both path handlers, on the rows in paths.
GroupingPass ==
    /\ pc = "group"
    /\ response' = Json(GroupPaths(paths))
    /\ pc' = "done"
    /\ UNCHANGED <<store, others, handler, arg, node_tree, working, iters, edge_ids, paths, calls, failed>>

Next ==
    \/ \E individual_id \in IndIds : IndividualStart(individual_id)
    \/ NodeTreeBase
    \/ NodeTreeStep
    \/ EdgesQueryOk
    \/ EdgesQueryErr
    \/ PathsQueryOk
    \/ PathsQueryErr
    \/ \E state_id \in StateIds : OriginPathsOk(state_id)
    \/ \E state_id \in StateIds : OriginPathsErr(state_id)
    \/ AverageFluxOk
    \/ AverageFluxErr
    \/ Return

\* The handlers over any pedigree.
Spec == Init /\ [][Next]_vars

\* The handlers over any attachment table.
RowSpec == InitRows /\ [][Next]_vars

\* The handlers over the end-to-end scenario.
ScenarioSpec == InitScenario /\ [][Next]_vars

\* The flux endpoint alone.
FluxNext ==
    \/ AverageFluxOk
    \/ AverageFluxErr
    \/ Return

\* get_average_flux over any flux table.
FluxSpec == InitFlux /\ [][FluxNext]_vars

\* A switch that leaves edge_ids where it is, as if the handlers kept it
\* in one place shared by all requests.
SwitchSharingEdgeIds(p) ==
    /\ Locals # reqs[p]
    /\ reqs' = [reqs EXCEPT ![p] = Locals]
    /\ pc' = reqs[p].pc
    /\ handler' = reqs[p].handler
    /\ arg' = reqs[p].arg
    /\ node_tree' = reqs[p].node_tree
    /\ working' = reqs[p].working
    /\ iters' = reqs[p].iters
    /\ edge_ids' = edge_ids
    /\ paths' = reqs[p].paths
    /\ response' = reqs[p].response
    /\ calls' = reqs[p].calls
    /\ failed' = reqs[p].failed
    /\ UNCHANGED <<store, migration>>

\* The runtime suspends the running task at its await and resumes task p:
\* each task's locals live in its own future, and the tasks share only the
\* pool of AppState.
Switch(p) ==
    /\ Locals # reqs[p]
    /\ reqs' = [reqs EXCEPT ![p] = Locals]
    /\ pc' = reqs[p].pc
    /\ handler' = reqs[p].handler
    /\ arg' = reqs[p].arg
    /\ node_tree' = reqs[p].node_tree
    /\ working' = reqs[p].working
    /\ iters' = reqs[p].iters
    /\ edge_ids' = reqs[p].edge_ids
    /\ paths' = reqs[p].paths
    /\ response' = reqs[p].response
    /\ calls' = reqs[p].calls
    /\ failed' = reqs[p].failed
    /\ UNCHANGED <<store, migration>>

\* The handlers of concurrent requests, interleaved at their awaits.
ConcNext ==
    \/ Next
    \/ \E p \in DOMAIN reqs : Switch(p)

ConcSpec == InitConc /\ [][ConcNext]_vars

\* The grouping pass over any attachment sequence.
GroupSpec == InitGroup /\ [][GroupingPass]_vars

\* --------------------------------------------- migrate_data: georef part
\* The entries of georef-arg.json and the rows of georef_entries.
GeorefEntry == [edge_id : {1, 2}, state_id : {1}, time : 0..MaxTick]

\* fn float_eq
float_eq(a, b) == Abs(a - b) < Tolerance

\* The entries of chunk that match no row read from the table before the
\* loop, in the order of the chunk.
NewEntries(chunk, existing_georef_entries) ==
    SelectSeq(chunk, LAMBDA g :
        ~\E x \in existing_georef_entries :
            /\ x.edge_id = g.edge_id
            /\ x.state_id = g.state_id
            /\ float_eq(x.time, g.time))

\* The chunk of georef_data that follows the entries processed so far.
GeorefChunkAt(georef_data, processed_georef) ==
    SubSeq(georef_data, processed_georef + 1,
           Min(processed_georef + ChunkSize, Len(georef_data)))

\* INSERT INTO georef_entries .. VALUES .. ON CONFLICT DO NOTHING, under
\* UNIQUE (edge_id, state_id, time): a row equal to a stored one is skipped.
InsertGeoref(table, new_entries) ==
    table \cup {new_entries[k] : k \in 1..Len(new_entries)}

\* migrate_data is about to run over any table of at most two rows and any
\* file of at most MaxLen entries.
InitGeoref ==
    /\ nodes = {}
    /\ individuals = [i \in {} |-> {}]
    /\ edges = {}
    /\ geo_arg = {}
    /\ flux = {}
    /\ NoRequest
    /\ populations = {}
    /\ hexagons = {}
    /\ georef_entries \in SubsetsUpTo(GeorefEntry, 2)
    /\ reqs = <<>>
    /\ migration \in {[pc |-> "start", georef_data |-> f,
                       existing_georef_entries |-> {}, processed_georef |-> 0] :
                         f \in SeqsUpTo(GeorefEntry, MaxLen)}

\* The rows of the table are read for the comparison.
GeorefCheckExisting ==
    /\ migration.pc = "start"
    /\ migration' = [migration EXCEPT !.pc = "chunks",
                                      !.existing_georef_entries = georef_entries]
    /\ UNCHANGED <<store, reqs, locals>>

\* An earlier part of main, the SELECT or the opening of the file fails:
\* main returns the error.
GeorefCheckErr ==
    /\ migration.pc = "start"
    /\ migration' = [migration EXCEPT !.pc = "failed"]
    /\ UNCHANGED <<store, reqs, locals>>

\* One iteration of `for chunk in georef_data.chunks(100)`.
GeorefChunk ==
    /\ migration.pc = "chunks"
    /\ migration.processed_georef < Len(migration.georef_data)
    /\ LET chunk == GeorefChunkAt(migration.georef_data, migration.processed_georef)
           new_entries == NewEntries(chunk, migration.existing_georef_entries)
       IN /\ georef_entries' = InsertGeoref(georef_entries, new_entries)
          /\ migration' = [migration EXCEPT !.processed_georef = @ + Len(chunk)]
    /\ UNCHANGED <<nodes, individuals, edges, geo_arg, flux, populations, hexagons,
                   reqs, locals>>

\* The INSERT of a chunk fails: main returns the error.
GeorefChunkErr ==
    /\ migration.pc = "chunks"
    /\ migration.processed_georef < Len(migration.georef_data)
    /\ NewEntries(GeorefChunkAt(migration.georef_data, migration.processed_georef),
                  migration.existing_georef_entries) # <<>>
    /\ migration' = [migration EXCEPT !.pc = "failed"]
    /\ UNCHANGED <<store, reqs, locals>>

\* The loop is over: "Data migration completed successfully!"
GeorefCompleted ==
    /\ migration.pc = "chunks"
    /\ migration.processed_georef = Len(migration.georef_data)
    /\ migration' = [migration EXCEPT !.pc = "completed"]
    /\ UNCHANGED <<store, reqs, locals>>

GeorefNext ==
    \/ GeorefCheckExisting
    \/ GeorefCheckErr
    \/ GeorefChunk
    \/ GeorefChunkErr
    \/ GeorefCompleted

\* The georef ingestion of migrate_data.
GeorefSpec == InitGeoref /\ [][GeorefNext]_vars

\* ------------------------------------------------- migrate_data_local
\* The input files: sql_data/*.json, the hexagon GeoJSON, the flux time
\* series and georef-arg.json.
LocalFiles ==
    [populations |-> <<[id |-> 1]>>,
     individuals |-> <<[id |-> 1, nodes |-> {3}]>>,
     nodes |-> <<[id |-> 1], [id |-> 2], [id |-> 3]>>,
     edges |-> <<[id |-> 1, parent |-> 1, child |-> 2],
                 [id |-> 2, parent |-> 2, child |-> 3],
                 [id |-> 3, parent |-> 1, child |-> 3]>>,
     hexagons |-> <<[state_id |-> 1], [state_id |-> 2]>>,
     flux |-> << <<[source_id |-> 1, target_id |-> 2, value |-> 2],
                   [source_id |-> 2, target_id |-> 1, value |-> 0],
                   [source_id |-> 2, target_id |-> 2, value |-> 4]>>,
                 <<[source_id |-> 1, target_id |-> 2, value |-> 4]>> >>,
     geo_arg |-> <<[edge_id |-> 1, state_id |-> 1, time |-> 0],
                   [edge_id |-> 1, state_id |-> 2, time |-> 1],
                   [edge_id |-> 2, state_id |-> 1, time |-> 0]>>]

\* The tables as one record: what a transaction sees and, at its commit,
\* leaves.
Tables ==
    [nodes |-> nodes, individuals |-> individuals, edges |-> edges,
     geo_arg |-> geo_arg, flux |-> flux, populations |-> populations,
     hexagons |-> hexagons]

\* fn get_max_id: COALESCE(MAX(id), -1)
get_max_id(ids) ==
    IF ids = {} THEN -1 ELSE CHOOSE m \in ids : \A i \in ids : i <= m

\* .filter(|x| x.id > last_id)
Filtered(rows, last_id) == SelectSeq(rows, LAMBDA x : x.id > last_id)

\* rows.chunks(batch_size), each chunk with the table it goes to.
RECURSIVE Chunks(_, _, _)
Chunks(table, rows, batch_size) ==
    IF rows = <<>> THEN <<>>
    ELSE <<[table |-> table, rows |-> SubSeq(rows, 1, Min(batch_size, Len(rows)))]>>
         \o Chunks(table, SubSeq(rows, batch_size + 1, Len(rows)), batch_size)

\* The chunks of batch_insert_flux: for each time step, the chunks of its
\* entries, bound with time = the index of the step.
RECURSIVE FluxChunks(_, _)
FluxChunks(time_series, time_step) ==
    IF time_step >= Len(time_series) THEN <<>>
    ELSE Chunks("flux",
                [k \in 1..Len(time_series[time_step + 1]) |->
                    [source_id |-> time_series[time_step + 1][k].source_id,
                     target_id |-> time_series[time_step + 1][k].target_id,
                     value |-> time_series[time_step + 1][k].value,
                     time |-> time_step]],
                BatchSize)
         \o FluxChunks(time_series, time_step + 1)

\* The chunks main processes, in its order; populations go row by row.
AllChunks(files, last) ==
    Chunks("populations", Filtered(files.populations, last.populations), 1)
    \o Chunks("individuals", Filtered(files.individuals, last.individuals), BatchSize)
    \o Chunks("nodes", Filtered(files.nodes, last.nodes), BatchSize)
    \o Chunks("edges", Filtered(files.edges, last.edges), BatchSize)
    \o Chunks("hexagons", files.hexagons, BatchSize)
    \o FluxChunks(files.flux, 0)
    \o Chunks("geo_arg", files.geo_arg, BatchSize)

\* One INSERT of a batch function, on the tables t the transaction sees;
\* flux_id is the next value of the id sequence of flux.
InsertRow(t, table, row, flux_id) ==
    IF table = "populations" THEN [t EXCEPT !.populations = @ \cup {row.id}]
    ELSE IF table = "individuals"
    THEN IF row.id \in DOMAIN t.individuals THEN t
         ELSE [t EXCEPT !.individuals =
                 [i \in DOMAIN t.individuals \cup {row.id} |->
                     IF i = row.id THEN row.nodes ELSE t.individuals[i]]]
    ELSE IF table = "nodes" THEN [t EXCEPT !.nodes = @ \cup {row.id}]
    ELSE IF table = "edges"
    THEN IF \E e \in t.edges : e.id = row.id THEN t
         ELSE [t EXCEPT !.edges = @ \cup {row}]
    ELSE IF table = "hexagons" THEN [t EXCEPT !.hexagons = @ \cup {row.state_id}]
    ELSE IF table = "flux"
    THEN [t EXCEPT !.flux = @ \cup
            {[id |-> flux_id, source_state_id |-> row.source_id,
              target_state_id |-> row.target_id, time |-> row.time,
              migration_rate |-> row.value]}]
    ELSE [t EXCEPT !.geo_arg = @ \cup {row}]

\* migrate_data_local has not run yet and every table is empty.
InitLocal ==
    /\ nodes = {}
    /\ individuals = [i \in {} |-> {}]
    /\ edges = {}
    /\ geo_arg = {}
    /\ flux = {}
    /\ NoRequest
    /\ populations = {}
    /\ hexagons = {}
    /\ georef_entries = {}
    /\ reqs = <<>>
    /\ migration = [pc |-> "not_started", runs |-> 0, files |-> LocalFiles,
                    flux_id_seq |-> 0, chunks |-> <<>>, chunk |-> 0,
                    row |-> 0, tx |-> None]

\* The sequences that hold the records of rows in any order.
Reordered(rows) ==
    {[k \in 1..Len(rows) |-> rows[f[k]]] :
        f \in {g \in [1..Len(rows) -> 1..Len(rows)] :
                  \A i, j \in 1..Len(rows) : g[i] = g[j] => i = j}}

\* migrate_data_local has not run yet, every table is empty, and the node
\* and edge files hold their records in any order.
InitLocalAnyOrder ==
    /\ nodes = {}
    /\ individuals = [i \in {} |-> {}]
    /\ edges = {}
    /\ geo_arg = {}
    /\ flux = {}
    /\ NoRequest
    /\ populations = {}
    /\ hexagons = {}
    /\ georef_entries = {}
    /\ reqs = <<>>
    /\ migration \in
          {[pc |-> "not_started", runs |-> 0,
            files |-> [LocalFiles EXCEPT !.nodes = ns, !.edges = es],
            flux_id_seq |-> 0, chunks |-> <<>>, chunk |-> 0,
            row |-> 0, tx |-> None] :
              ns \in Reordered(LocalFiles.nodes), es \in Reordered(LocalFiles.edges)}

\* The tables become t.
WriteTables(t) ==
    /\ nodes' = t.nodes
    /\ individuals' = t.individuals
    /\ edges' = t.edges
    /\ geo_arg' = t.geo_arg
    /\ flux' = t.flux
    /\ populations' = t.populations
    /\ hexagons' = t.hexagons
    /\ UNCHANGED georef_entries

\* The chunk the run is at.
CurrentChunk == migration.chunks[migration.chunk]

\* main is started, for the first time or again after a run has ended: it
\* reads the last ids and the files, and so fixes the chunks to process.
LocalStart ==
    /\ migration.pc \in {"not_started", "failed", "completed"}
    /\ migration.runs < MaxRuns
    /\ migration' =
          [migration EXCEPT
              !.pc = "between",
              !.runs = @ + 1,
              !.chunks = AllChunks(migration.files,
                            [populations |-> get_max_id(populations),
                             individuals |-> get_max_id(DOMAIN individuals),
                             nodes |-> get_max_id(nodes),
                             edges |-> get_max_id({e.id : e \in edges})]),
              !.chunk = 1,
              !.row = 0,
              !.tx = None]
    /\ UNCHANGED <<store, reqs, locals>>

\* pool.begin() of the next chunk.
LocalBegin ==
    /\ migration.pc = "between"
    /\ migration.chunk <= Len(migration.chunks)
    /\ migration' = [migration EXCEPT !.pc = "in_tx", !.row = 0, !.tx = Some(Tables)]
    /\ UNCHANGED <<store, reqs, locals>>

\* pool.begin() fails, or the file of the next table cannot be read: the
\* error goes up through every `?` and main returns it.
LocalBeginErr ==
    /\ migration.pc = "between"
    /\ migration.chunk <= Len(migration.chunks)
    /\ migration' = [migration EXCEPT !.pc = "failed"]
    /\ UNCHANGED <<store, reqs, locals>>

\* The INSERT statements committed as they are executed, outside of the
\* transaction of the chunk.
LocalInsertAutocommit ==
    /\ migration.pc = "in_tx"
    /\ migration.row < Len(CurrentChunk.rows)
    /\ WriteTables(InsertRow(Tables, CurrentChunk.table,
                             CurrentChunk.rows[migration.row + 1],
                             migration.flux_id_seq + 1))
    /\ migration' =
          [migration EXCEPT
              !.row = @ + 1,
              !.flux_id_seq = IF CurrentChunk.table = "flux" THEN @ + 1 ELSE @,
              !.tx = Some(InsertRow(migration.tx[1], CurrentChunk.table,
                                    CurrentChunk.rows[migration.row + 1],
                                    migration.flux_id_seq + 1))]
    /\ UNCHANGED <<reqs, locals>>

\* The INSERT of the next row of the chunk, executed on the transaction.
LocalInsert ==
    /\ migration.pc = "in_tx"
    /\ migration.row < Len(CurrentChunk.rows)
    /\ migration' =
          [migration EXCEPT
              !.row = @ + 1,
              !.flux_id_seq = IF CurrentChunk.table = "flux" THEN @ + 1 ELSE @,
              !.tx = Some(InsertRow(migration.tx[1], CurrentChunk.table,
                                    CurrentChunk.rows[migration.row + 1],
                                    migration.flux_id_seq + 1))]
    /\ UNCHANGED <<store, reqs, locals>>

\* The INSERT of the next row fails: `?` drops the transaction, which
\* rolls it back, and main returns the error.
LocalInsertErr ==
    /\ migration.pc = "in_tx"
    /\ migration.row < Len(CurrentChunk.rows)
    /\ migration' = [migration EXCEPT !.pc = "failed", !.tx = None]
    /\ UNCHANGED <<store, reqs, locals>>

\* tx.commit(): the rows of the chunk become visible together.
LocalCommit ==
    /\ migration.pc = "in_tx"
    /\ migration.row = Len(CurrentChunk.rows)
    /\ WriteTables(migration.tx[1])
    /\ migration' = [migration EXCEPT !.pc = "between", !.chunk = @ + 1,
                                      !.row = 0, !.tx = None]
    /\ UNCHANGED <<reqs, locals>>

\* tx.commit() returns an error: main returns it; the store has either
\* rolled the transaction back or committed it before the error arose.
LocalCommitErr ==
    /\ migration.pc = "in_tx"
    /\ migration.row = Len(CurrentChunk.rows)
    /\ \E t \in {Tables, migration.tx[1]} : WriteTables(t)
    /\ migration' = [migration EXCEPT !.pc = "failed", !.tx = None]
    /\ UNCHANGED <<reqs, locals>>

\* Every batch function has returned Ok: "Data migration completed
\* successfully!"
LocalCompleted ==
    /\ migration.pc = "between"
    /\ migration.chunk > Len(migration.chunks)
    /\ migration' = [migration EXCEPT !.pc = "completed"]
    /\ UNCHANGED <<store, reqs, locals>>

LocalNext ==
    \/ LocalStart
    \/ LocalBegin
    \/ LocalBeginErr
    \/ LocalInsert
    \/ LocalInsertErr
    \/ LocalCommit
    \/ LocalCommitErr
    \/ LocalCompleted

\* The runs of migrate_data_local, at most MaxRuns of them.
LocalSpec == InitLocal /\ [][LocalNext]_vars

\* The first run of migrate_data_local is over.
AfterFirstRun == migration.runs > 1

\* The steps of migrate_data_local when its first run meets no error.
RerunNext ==
    \/ LocalStart
    \/ LocalBegin
    \/ AfterFirstRun /\ LocalBeginErr
    \/ LocalInsert
    \/ AfterFirstRun /\ LocalInsertErr
    \/ LocalCommit
    \/ AfterFirstRun /\ LocalCommitErr
    \/ LocalCompleted

\* migrate_data_local run again on the same files, whatever the order of
\* their records, after a first run that completed.
RerunSpec == InitLocalAnyOrder /\ [][RerunNext]_vars

\* The runs of migrate_data_local, at most MaxRuns of them, on files in
\* any order.
ResumeSpec == InitLocalAnyOrder /\ [][LocalNext]_vars

\* ------------------------------------------------- notions of the claims
\* The seed nodes of the individual query: the nodes array of the individual.
Seeds == IF arg \in DOMAIN individuals THEN individuals[arg] ELSE {}

ParentsOf(S) == {e.parent : e \in {x \in edges : x.child \in S}}

ClosedUnderParents(C) == ParentsOf(C) \subseteq C

\* The least set that contains S and, with a node, the parent of every edge
\* whose child the node is.
AncestorClosure(S) ==
    CHOOSE C \in SUBSET (NodeIds \cup S) :
        /\ S \subseteq C
        /\ ClosedUnderParents(C)
        /\ \A D \in SUBSET (NodeIds \cup S) :
              (S \subseteq D /\ ClosedUnderParents(D)) => C \subseteq D

\* Node m is its own ancestor.
OnCycle(m) == m \in AncestorClosure(ParentsOf({m}))

Acyclic == \A m \in NodeIds : ~OnCycle(m)

CycleReachable == \E m \in AncestorClosure(Seeds) : OnCycle(m)

\* The first query of the individual handler has answered.
EdgesAnswered ==
    /\ handler = "individual"
    /\ pc \in {"paths_query", "done"}
    /\ "edges" \notin failed

\* The edge ids with an attachment at cell c, earliest or not.
AttachedAt(c) == {e \in EdgeIds : \E g \in geo_arg : g.edge_id = e /\ g.state_id = c}

\* The edge ids whose minimum-time attachment is at cell c.
OriginatesAt(c) ==
    {e \in EdgeIds : \E g \in geo_arg :
        /\ g.edge_id = e
        /\ g.state_id = c
        /\ \A h \in geo_arg : h.edge_id = e => g.time <= h.time}

PathHandlerDone == pc = "done" /\ handler \in {"individual", "origin"}

PathEdgeIds == {response.body[k].edge_id : k \in 1..Len(response.body)}

RECURSIVE ConcatEntries(_)
ConcatEntries(ps) ==
    IF ps = <<>> THEN <<>> ELSE Head(ps).entries \o ConcatEntries(Tail(ps))

SortedByEdgeTime(rows) ==
    \A i, j \in 1..Len(rows) :
        i < j => \/ rows[i].edge_id < rows[j].edge_id
                 \/ rows[i].edge_id = rows[j].edge_id /\ rows[i].time <= rows[j].time

\* ------------------------------------------------------------------ C1
\* C1 (as claimed): on an acyclic pedigree and a single seed node n, the
\* edge set of the individual query is exactly the set of edges on a
\* parent-path from n up to a root, that is the edges whose child is in
\* the ancestor closure of n, and no other edge.
C1_ExactlyParentPathEdges ==
    (EdgesAnswered /\ Acyclic /\ Cardinality(Seeds) = 1) =>
        edge_ids = {e.id : e \in {x \in edges : x.child \in AncestorClosure(Seeds)}}

\* ------------------------------------------------------------------ C3
\* C3: on a pedigree with a cycle reachable from the seed nodes, every node
\* has at most one row in node_tree, the recursive term is evaluated at most
\* once per node (so the evaluation ends), and the edge set it yields is a
\* set of stored edges.
C3_CycleTerminates ==
    (handler = "individual" /\ CycleReachable) =>
        /\ \A n \in NodeIds : node_tree[n] <= 1
        /\ \A n \in NodeIds : working[n] <= 1
        /\ iters <= Cardinality(NodeIds)
        /\ edge_ids \subseteq {e.id : e \in edges}

\* C3's case: the query has answered on a pedigree with a reachable cycle
\* of two or more nodes, all of which are in node_tree.
C3_Witness ==
    /\ EdgesAnswered
    /\ pc = "done"
    /\ \E m \in AncestorClosure(Seeds) :
          /\ OnCycle(m)
          /\ m \notin ParentsOf({m})
          /\ node_tree[m] = 1
    /\ iters >= 2

C5_NoIncomingGivesEmpty ==
    (EdgesAnswered /\ \A e \in edges : e.child \notin Seeds) => edge_ids = {}

C6_OnePathPerEdge ==
    (pc = "done" /\ SortedByEdgeTime(paths)) =>
        /\ Len(response.body) = Cardinality({paths[k].edge_id : k \in 1..Len(paths)})
        /\ \A i, j \in 1..Len(response.body) :
              i # j => response.body[i].edge_id # response.body[j].edge_id

\* C6's case: a sorted input of three rows over two edges has been grouped.
C6_Witness ==
    /\ pc = "done"
    /\ SortedByEdgeTime(paths)
    /\ Len(paths) = 3
    /\ Cardinality({paths[k].edge_id : k \in 1..Len(paths)}) = 2
    /\ Len(response.body) = 2

\* ------------------------------------------------------------------ C7
\* C7: for any attachment sequence, the entries of the returned paths, taken
\* in the order of the paths, are the input sequence: nothing is lost,
\* repeated or moved, and the path lengths add up to the input length.
C7_ConcatIsInput ==
    pc = "done" => ConcatEntries(response.body) = paths

\* C7's case: an input that is not sorted has been grouped into several
\* paths, one of them of two entries.
C7_Witness ==
    /\ pc = "done"
    /\ ~SortedByEdgeTime(paths)
    /\ Len(response.body) >= 2
    /\ \E k \in 1..Len(response.body) : Len(response.body[k].entries) = 2

\* ------------------------------------------------------------------ C8
\* C8 (as claimed): in every returned path, each entry's time is strictly
\* greater than the time of the entry before it.
C8_TimesStrictlyAscend ==
    PathHandlerDone =>
        \A k \in 1..Len(response.body) :
            \A i \in 1..(Len(response.body[k].entries) - 1) :
                response.body[k].entries[i].time < response.body[k].entries[i + 1].time

\* C8 (amended): in every returned path, each entry's time is greater than
\* or equal to the time of the entry before it, and two consecutive entries
\* have the same time only when they are attachments at different cells.
C8_TimesAscend ==
    PathHandlerDone =>
        \A k \in 1..Len(response.body) :
            \A i \in 1..(Len(response.body[k].entries) - 1) :
                LET a == response.body[k].entries[i]
                    b == response.body[k].entries[i + 1]
                IN /\ a.time <= b.time
                   /\ a.time = b.time => a.state_id # b.state_id

\* C8's case: a returned path holds three attachments, two of them at the
\* same time and one later.
C8_Witness ==
    /\ PathHandlerDone
    /\ \E k \in 1..Len(response.body) :
          LET es == response.body[k].entries
          IN /\ Len(es) = 3
             /\ \E i \in 1..2 : es[i].time = es[i + 1].time
             /\ \E i \in 1..2 : es[i].time < es[i + 1].time

\* ------------------------------------------------------------------ C9
\* C9 (as claimed): when a store call of a request has failed, what the
\* caller receives differs from a successful empty result, and no store
\* call is issued twice.
C9_FailureDistinguishable ==
    (pc = "done" /\ failed # {}) =>
        /\ response # Json(<<>>)
        /\ \A i, j \in 1..Len(calls) : i # j => calls[i] # calls[j]

\* ----------------------------------------------------------------- C10
\* C10 (as claimed): whatever cap on visited nodes is configured, a call of
\* the individual query that visits more nodes than the cap returns a
\* result marked as truncated, not an ordinary path list.
C10_TruncationReported ==
    \A cap \in 1..(MaxNode - 1) :
        (handler = "individual" /\ pc = "done"
            /\ Cardinality(BagSet(node_tree)) > cap) =>
            response.kind # "Json"

\* C11: the individual query answers the empty list, as a normal Json
\* response, when the seed set is empty (an individual without nodes, or
\* an id that no individual has) and whenever the edge query gave no edge
\* id; with no edge id the attachment query is never sent to the store.
C11_EmptyInputsGiveEmpty ==
    (handler = "individual" /\ pc \in {"paths_query", "done"}) =>
        /\ Seeds = {} => edge_ids = {}
        /\ edge_ids = {} =>
              /\ pc = "done"
              /\ response = Json(<<>>)
              /\ \A k \in 1..Len(calls) : calls[k] # "paths"

\* An id that no individual has is queried over a store that holds edges
\* and attachments, and the query answers.
C11_Witness ==
    /\ handler = "individual"
    /\ pc = "done"
    /\ arg \notin DOMAIN individuals
    /\ edges # {}
    /\ geo_arg # {}
    /\ failed = {}
    /\ calls = <<"edges">>
    /\ response = Json(<<>>)

\* ----------------------------------------------------------------- C17
\* The adjacent positions of a sequence at which the edge id changes.
EdgeChanges(rows) ==
    {i \in 1..(Len(rows) - 1) : rows[i].edge_id # rows[i + 1].edge_id}

\* C17: for any attachment sequence, sorted or not, the grouping pass emits
\* one path per maximal run of equal edge ids: the empty sequence gives no
\* path, a non-empty one gives 1 + (number of adjacent positions where the
\* edge id changes) paths, and neighbouring paths differ in edge id.
C17_OnePathPerRun ==
    pc = "done" =>
        /\ Len(response.body) =
              IF paths = <<>> THEN 0 ELSE 1 + Cardinality(EdgeChanges(paths))
        /\ \A k \in 1..(Len(response.body) - 1) :
              response.body[k].edge_id # response.body[k + 1].edge_id

\* An edge id that is not contiguous in the input (edges 1, 2, 1) has been
\* grouped: three paths, two of them for edge 1.
C17_Witness ==
    /\ pc = "done"
    /\ Len(paths) = 3
    /\ paths[1].edge_id = 1 /\ paths[2].edge_id = 2 /\ paths[3].edge_id = 1
    /\ Len(response.body) = 3
    /\ response.body[1].edge_id = 1 /\ response.body[3].edge_id = 1

\* ----------------------------------------------------------------- C18
\* The stored attachments of edge e.
AttachmentsOf(e) == {g \in geo_arg : g.edge_id = e}

\* C18: get_origin_paths returns at most RowLimit paths, and each returned
\* path holds every stored attachment of its edge exactly once, those at
\* other cells than the queried one included: the limit cuts the set of
\* edges, never the entries of a path.
C18_LimitedButComplete ==
    (handler = "origin" /\ pc = "done") =>
        /\ Len(response.body) <= RowLimit
        /\ \A k \in 1..Len(response.body) :
              LET p == response.body[k]
              IN /\ {p.entries[j] : j \in 1..Len(p.entries)} = AttachmentsOf(p.edge_id)
                 /\ Len(p.entries) = Cardinality(AttachmentsOf(p.edge_id))

\* More edges are attached at the queried cell than the limit admits, and
\* the returned path has an entry at another cell.
C18_Witness ==
    /\ handler = "origin"
    /\ pc = "done"
    /\ failed = {}
    /\ Cardinality(AttachedAt(arg)) > RowLimit
    /\ Len(response.body) = RowLimit
    /\ \E k \in 1..Len(response.body) :
          \E j \in 1..Len(response.body[k].entries) :
              response.body[k].entries[j].state_id # arg

C15_ScenarioOnePath ==
    (handler = "individual" /\ arg = 1 /\ pc = "done" /\ failed = {}) =>
        /\ edge_ids = {1, 2}
        /\ \A k \in 1..Len(response.body) : response.body[k].edge_id # 2
        /\ geo_arg = ScenarioRows =>
              response = Json(<<GeoArgPath(1,
                  <<[edge_id |-> 1, state_id |-> 1, time |-> 0],
                    [edge_id |-> 1, state_id |-> 2, time |-> 1]>>)>>)

\* The scenario's query has answered over the scenario's attachments.
C15_Witness ==
    /\ handler = "individual"
    /\ arg = 1
    /\ pc = "done"
    /\ failed = {}
    /\ individuals[1] = {2, 3}
    /\ edges = ScenarioEdges
    /\ geo_arg = ScenarioRows
    /\ Len(response.body) = 1
    /\ calls = <<"edges", "paths">>

\* ----------------------------------------------------------- C12, C13
\* The flux rows of pair p with id at most i, their number, and the sum of
\* their rates, taken row by row in id order.
PairRowsTo(p, i) ==
    {r \in flux : r.id <= i /\ r.source_state_id = p[1] /\ r.target_state_id = p[2]}

RowCount(p) == Cardinality(PairRowsTo(p, Cardinality(flux)))

RECURSIVE RateSumTo(_, _)
RateSumTo(p, i) ==
    IF i = 0 THEN 0
    ELSE LET here == PairRowsTo(p, i) \ PairRowsTo(p, i - 1)
         IN RateSumTo(p, i - 1) +
            (IF here = {} THEN 0 ELSE (CHOOSE r \in here : TRUE).migration_rate)

RateSum(p) == RateSumTo(p, Cardinality(flux))

FluxAnswered == handler = "flux" /\ pc = "done" /\ failed = {}

\* The pair of a returned tuple.
PairOf(row) == <<row.source_state_id, row.target_state_id>>

\* C12: the average returned for a pair is the sum of the rates of the
\* flux rows of that pair divided by the number of those rows, that is of
\* the time steps the pair is present in; rates 2, 4, 6 for one pair and
\* no other row give exactly one tuple, with average 4.
C12_AverageIsSumOverCount ==
    FluxAnswered =>
        /\ \A k \in 1..Len(response.body) :
              LET row == response.body[k]
                  avg == row.average_migration_rate
              IN /\ avg.den > 0
                 /\ RowCount(PairOf(row)) > 0
                 /\ avg.num * RowCount(PairOf(row)) = RateSum(PairOf(row)) * avg.den
        /\ \A p \in FluxPairs :
              (/\ RowCount(p) = Cardinality(flux)
               /\ {r.migration_rate : r \in flux} = {2, 4, 6}
               /\ Cardinality(flux) = 3) =>
                 response.body =
                    <<[source_state_id |-> p[1], target_state_id |-> p[2],
                       average_migration_rate |-> [num |-> 4, den |-> 1]]>>

\* A pair present in two of three time steps, at rates 2 and 6, has been
\* averaged over its two rows, to 4.
C12_Witness ==
    /\ FluxAnswered
    /\ Cardinality({r.time : r \in flux}) = 3
    /\ \E k \in 1..Len(response.body) :
          /\ RowCount(PairOf(response.body[k])) = 2
          /\ RateSum(PairOf(response.body[k])) = 8
          /\ response.body[k].average_migration_rate = [num |-> 4, den |-> 1]

\* C13: the result holds a pair if and only if the pair has rows whose
\* average is strictly positive, and the tuples ascend strictly by
\* (source, target), so that each pair occurs once.
C13_PositivePairsInOrder ==
    FluxAnswered =>
        /\ {PairOf(response.body[k]) : k \in 1..Len(response.body)} =
              {p \in FluxPairs : RowCount(p) > 0 /\ RateSum(p) > 0}
        /\ \A k \in 1..(Len(response.body) - 1) :
              LET p == PairOf(response.body[k])
                  q == PairOf(response.body[k + 1])
              IN p[1] < q[1] \/ (p[1] = q[1] /\ p[2] < q[2])

\* Two pairs are returned and a third, whose average is 0, is left out.
C13_Witness ==
    /\ FluxAnswered
    /\ Len(response.body) = 2
    /\ \E p \in FluxPairs : RowCount(p) > 0 /\ RateSum(p) = 0

\* ----------------------------------------------------------------- C16
\* The tasks of the server: the running one and the suspended ones.
Tasks == {Locals} \cup {reqs[p] : p \in DOMAIN reqs}

\* What the edge query of the individual query for id a gives over the
\* store, computed from the tables alone.
AloneEdgeIds(a) ==
    LET C == AncestorClosure(IF a \in DOMAIN individuals THEN individuals[a] ELSE {})
    IN {e.id : e \in {x \in edges : x.parent \in C \/ x.child \in C}}

\* The responses handler h with parameter a can give over the store when
\* it runs alone and the store answers.
AloneResponses(h, a) ==
    IF h = "individual"
    THEN {Json(GroupPaths(rows)) : rows \in OrderedRows(RowsOfEdges(AloneEdgeIds(a)))}
    ELSE IF h = "origin"
    THEN UNION {{Json(GroupPaths(rows)) : rows \in OrderedRows(RowsOfEdges(rt))} :
                  rt \in RelevantTransitions(a)}
    ELSE {Json(AverageFluxRows)}

\* C16: over a store that does not change, whatever the interleaving of
\* the store round-trips of concurrent path and flux queries, each query
\* that answers returns a result it can return when it runs alone (and the
\* empty list when one of its store calls failed), and what a query holds
\* between its two round-trips is its own edge-id set: no query reads or
\* writes state of another.
C16_ConcurrentAsAlone ==
    \A t \in Tasks :
        /\ t.pc = "done" =>
              IF t.failed = {}
              THEN t.response \in AloneResponses(t.handler, t.arg)
              ELSE t.response = Json(<<>>)
        /\ t.pc = "paths_query" => t.edge_ids = AloneEdgeIds(t.arg)

\* An individual query has answered with a path while another one, started
\* before it returned, is suspended between its two round-trips.
C16_Witness ==
    /\ handler = "individual"
    /\ pc = "done"
    /\ failed = {}
    /\ response.body # <<>>
    /\ \E p \in DOMAIN reqs :
          /\ reqs[p].handler = "individual"
          /\ reqs[p].pc = "paths_query"
          /\ reqs[p].edge_ids # {}

\* ----------------------------------------------------------------- C14
\* C14: when migrate_data has completed, georef_entries holds no two rows
\* of the same edge id and state id whose times differ by less than the
\* tolerance.
C14_NoNearDuplicates ==
    migration.pc = "completed" =>
        \A a, b \in georef_entries :
            (a # b /\ a.edge_id = b.edge_id /\ a.state_id = b.state_id) =>
                ~float_eq(a.time, b.time)

\* ----------------------------------------------------------------- C20
\* The tables after the rows k.. of a chunk are inserted into t one after
\* the other, the first of them taking flux id flux_id.
RECURSIVE AfterRows(_, _, _, _)
AfterRows(t, chunk, k, flux_id) ==
    IF k > Len(chunk.rows) THEN t
    ELSE AfterRows(InsertRow(t, chunk.table, chunk.rows[k], flux_id),
                   chunk, k + 1, flux_id + 1)

\* A step of migrate_data_local that keeps chunks all-or-nothing.
ChunkStep ==
    /\ Tables' # Tables =>
          /\ migration.pc = "in_tx"
          /\ migration.row = Len(CurrentChunk.rows)
          /\ Tables' = AfterRows(Tables, CurrentChunk, 1,
                                 migration.flux_id_seq - Len(CurrentChunk.rows) + 1)
    /\ (/\ migration.pc = "in_tx"
        /\ migration.row < Len(CurrentChunk.rows)
        /\ migration'.pc = "failed") => Tables' = Tables
    /\ migration.pc = "failed" =>
          /\ Tables' = Tables
          /\ migration'.runs = migration.runs + 1

\* C20: the tables change only by all rows of one chunk at once, at its
\* commit; when an insert of a chunk fails the tables stay as the last
\* commit left them, so no row of the chunk is stored and the rows of the
\* chunks committed before remain; and after a failure the run takes no
\* further step: no later chunk or table is processed until main is
\* started again.
C20_ChunkAllOrNothing == [][ChunkStep]_vars

\* The first run has failed at the second insert of the first chunk of
\* flux: the chunks of the earlier tables are stored, no row of the failed
\* chunk is, and the later table geo_arg is empty.
C20_Witness ==
    /\ migration.pc = "failed"
    /\ migration.runs = 1
    /\ migration.chunk <= Len(migration.chunks)
    /\ CurrentChunk.table = "flux"
    /\ migration.row = 1
    /\ Len(CurrentChunk.rows) = 2
    /\ Cardinality(edges) = Len(migration.files.edges)
    /\ flux = {}
    /\ geo_arg = {}

\* ----------------------------------------------------------------- C21
\* The tables after the chunks k.. are committed one after the other on
\* t, the next flux id being flux_id.
RECURSIVE AfterChunks(_, _, _, _)
AfterChunks(t, chunks, k, flux_id) ==
    IF k > Len(chunks) THEN t
    ELSE AfterChunks(AfterRows(t, chunks[k], 1, flux_id), chunks, k + 1,
                     IF chunks[k].table = "flux"
                     THEN flux_id + Len(chunks[k].rows) ELSE flux_id)

\* The tables a first run that completes leaves, starting from empty
\* tables.
FirstRunTables ==
    AfterChunks([nodes |-> {}, individuals |-> [i \in {} |-> {}], edges |-> {},
                 geo_arg |-> {}, flux |-> {}, populations |-> {}, hexagons |-> {}],
                AllChunks(migration.files,
                          [populations |-> -1, individuals |-> -1,
                           nodes |-> -1, edges |-> -1]),
                1, 1)

\* AVG(migration_rate) of pair p over the flux rows F.
AvgOver(F, p) ==
    LET R == {r \in F : r.source_state_id = p[1] /\ r.target_state_id = p[2]}
    IN Ratio(SumOver(R, [r \in F |-> r.migration_rate]), Cardinality(R))

\* C21: when a second run on the same files has completed after a first
\* run that completed, every table is as the first run left it; the flux
\* table holds one row per (source, target, time step), and every pair has
\* the average it had after the first run.
C21_SecondRunChangesNothing ==
    (migration.pc = "completed" /\ migration.runs = 2) =>
        /\ Tables = FirstRunTables
        /\ \A r, s \in flux :
              (/\ r.source_state_id = s.source_state_id
               /\ r.target_state_id = s.target_state_id
               /\ r.time = s.time) => r = s
        /\ \A r \in FirstRunTables.flux :
              LET p == <<r.source_state_id, r.target_state_id>>
              IN AvgOver(flux, p) = AvgOver(FirstRunTables.flux, p)

\* ----------------------------------------------------------------- C22
\* The ids of the records of a file.
FileIds(rows) == {rows[k].id : k \in 1..Len(rows)}

\* C22: when a run has completed, after any earlier runs interrupted at
\* any point and for any order of the records in the files, every
\* population, individual, node and edge record of the files is stored.
C22_ResumeSkipsNothing ==
    migration.pc = "completed" =>
        /\ FileIds(migration.files.populations) \subseteq populations
        /\ FileIds(migration.files.individuals) \subseteq DOMAIN individuals
        /\ FileIds(migration.files.nodes) \subseteq nodes
        /\ FileIds(migration.files.edges) \subseteq {e.id : e \in edges}

====
